---- MODULE Spec2Model ----
(***************************************************************************)
(* Model of the Roland-808 sequencer engine (createRoland808Model) and of  *)
(* the 3D drag manager (createDragManager).                                *)
(*                                                                         *)
(* Arrays are 0-indexed in the source and 1-indexed here: cell k of a bank *)
(* array is element k+1 of the sequence.  A bank that is absent from an    *)
(* instrument's record (the fields a?/b? are optional) is a key missing    *)
(* from the DOMAIN of that record.                                         *)
(***************************************************************************)
EXTENDS Integers, Sequences, FiniteSets, TLC

VARIABLES
  note,            \* $note
  ab,              \* $ab
  abMode,          \* $abMode
  isRunning,       \* $isRunning
  tickerOn,        \* the Ticker created by createTicker is scheduling ticks
  pendingStarts,   \* calls of the start effect whose Tone.start() is not settled
  lastStart,       \* outcome of the most recently settled start effect
  instrument,      \* $instrument
  currentMode,     \* $currentMode
  dataset,         \* $dataset
  lowTumbler,      \* lowTumbler.value
  bpm,             \* $bpm
  eventsLeft,      \* how many more events the user of the engine issues
  ticksDone,       \* history: number of fxPlay.done events, modulo StepCount
  toggleParity,    \* history: number of togglePlay events, modulo 2
  onlyToggled,     \* history: the transport was driven by togglePlay alone
  edits,           \* history: number of pad toggles and taps issued
  last,            \* history: the last operation and what it invoked
  listening,       \* mousedown / mouseup listeners on document
  moveListener,    \* the mousemove listener on document is attached
  isDragging,      \* $isDragging
  activeElement,   \* intersectionsManager.activeElement
  dragHandlersMap, \* dragHandlersMap (the registered objects)
  activeElementCache,
  mousePositionCache,
  currentDragHandlerCache,
  throttleTimer,   \* lodash throttle: the wait timer is armed
  throttleArgs,    \* lodash throttle: lastArgs kept for the trailing call
  calls,           \* history: what the last pointer event invoked of the handlers
  control,         \* config of a registerSteppedDragControl / registerRangeDragControl
  cache,           \* `let cache` of the registered control
  handled          \* history: the last distance dragged and what config.handler got

seqVars == <<note, ab, abMode, isRunning, tickerOn, pendingStarts, lastStart,
             instrument, currentMode, dataset, lowTumbler, ticksDone,
             toggleParity, onlyToggled, edits, last, bpm, eventsLeft>>

dragVars == <<listening, moveListener, isDragging, activeElement,
              dragHandlersMap, activeElementCache, mousePositionCache,
              currentDragHandlerCache, throttleTimer, throttleArgs, calls>>

ctlVars == <<control, cache, handled>>

vars == <<seqVars, dragVars, ctlVars>>

(***************************************************************************)
(* Bounds                                                                  *)
(***************************************************************************)
MaxPending == 1
MaxEdits == 2
MaxEvents == 2
MaxDrag == 40
Unlimited == -1

(***************************************************************************)
(* Constants of the engine                                                 *)
(***************************************************************************)
StepCount == 16
LastStep == 15

AB == {"a", "b"}
ABMode == {"a", "ab", "b"}
InstrumentsKeys == {"bassDrum", "lowTom"}
instrumentsChain == <<"bassDrum", "lowTom">>
playerModes == <<"compose", "play", "manualPlay", "effects">>
PlayerMode == {playerModes[k] : k \in DOMAIN playerModes}
Steps == 0 .. LastStep
BPM == <<60, 80, 100, 110, 120, 140>>
defaultBPM == BPM[5]
PadInputs == {0, 1, LastStep}

Zeros == [k \in 1 .. StepCount |-> 0]

createInstrumentDataset == [a |-> Zeros, b |-> Zeros]

\* config.dataset: `has` are the instrument keys the override names (empty
\* when no override is given), `data` the record it gives for each of them.
createDataset(initial) ==
  [key \in InstrumentsKeys |->
     IF key \in initial.has THEN initial.data[key] ELSE createInstrumentDataset]

Beat == [k \in 1 .. StepCount |-> IF k \in {1, 5, 9, 13, 16} THEN 1 ELSE 0]
OffBeat == [k \in 1 .. StepCount |-> IF k \in {1, 3, 16} THEN 1 ELSE 0]

NoOverride == [has |-> {}, data |-> [key \in InstrumentsKeys |-> createInstrumentDataset]]
FullOverride ==
  [has |-> {"bassDrum", "lowTom"},
   data |-> [key \in InstrumentsKeys |->
               IF key = "bassDrum" THEN [a |-> Beat, b |-> OffBeat]
                                   ELSE [a |-> OffBeat, b |-> Beat]]]
\* an override that gives one bank only (InstrumentDataset: a?, b?)
BankOverride ==
  [has |-> {"lowTom"},
   data |-> [key \in InstrumentsKeys |-> [b |-> Beat]]]

InitialDatasets == {NoOverride, FullOverride, BankOverride}

(***************************************************************************)
(* Pure helpers of the engine                                              *)
(***************************************************************************)
toggleNumber(v) == IF v = 0 THEN 1 ELSE 0

isOneOf(args, target) == target \in args

isNotOneOf(args, target) == target \notin args

\* dataset[key][bank]?.[k] is truthy
CellOn(d, key, bank, k) ==
  /\ bank \in DOMAIN d[key]
  /\ k + 1 \in DOMAIN d[key][bank]
  /\ d[key][bank][k + 1] # 0

\* the handler of fxPlay: the instruments whose play() is invoked
fxPlayHandler(params) ==
  {key \in DOMAIN params.dataset :
     CellOn(params.dataset, key, params.ab, params.note)}

\* the position runs past the last step: the wrap is lost
noteOnDoneNoWrap(n) == n + 1

noteOnDone(n) == IF n = LastStep THEN 0 ELSE n + 1

\* the step-0 filter passes every update of the position
noteIsZeroAlways(n) == TRUE

\* guard($note.updates, {filter: (note) => note === 0})
noteIsZero(n) == n = 0

\* only mode "ab" asks for a flip: modes "a" and "b" no longer pull the bank
abToggledFilterOnlyAB(mode, bank) == mode = "ab"

abToggledFilter(mode, bank) == IF mode = "ab" THEN TRUE ELSE mode # bank

\* the bank is set to b instead of flipped
toggleABStuck(state) == "b"

toggleAB(state) == IF state = "a" THEN "b" ELSE "a"

cycleABModesReducer(mode) ==
  CASE mode = "a" -> "ab"
    [] mode = "ab" -> "b"
    [] mode = "b" -> "a"

IndexOf(seq, x) ==
  IF \E k \in DOMAIN seq : seq[k] = x
    THEN (CHOOSE k \in DOMAIN seq : seq[k] = x) - 1
    ELSE -1

cycleInstrumentReducer(i) ==
  LET idx == IndexOf(instrumentsChain, i) IN
    IF idx = -1 \/ idx + 1 = Len(instrumentsChain)
      THEN instrumentsChain[1]
      ELSE instrumentsChain[idx + 2]

\* from the last allowed BPM the value stays: the wrap is lost
cycleBPMReducerNoWrap(currentBPM) ==
  LET idx == IndexOf(BPM, currentBPM) IN
    IF idx = -1 THEN BPM[1]
    ELSE IF idx + 1 = Len(BPM) THEN currentBPM
    ELSE BPM[idx + 2]

cycleBPMReducer(currentBPM) ==
  LET idx == IndexOf(BPM, currentBPM) IN
    IF idx = -1 \/ idx + 1 = Len(BPM)
      THEN BPM[1]
      ELSE BPM[idx + 2]

\* $activeInstrumentPads: dataset[instrument]?.[ab] || [0, 1, ..., 15]
activeInstrumentPads(d, key, bank) ==
  IF bank \in DOMAIN d[key] THEN d[key][bank]
  ELSE [k \in 1 .. StepCount |-> k - 1]

\* $activePadLights: a copy with the cell at the position inverted while running
activePadLights(activePads, n, running) ==
  IF running /\ n + 1 \in DOMAIN activePads
    THEN [activePads EXCEPT ![n + 1] = IF activePads[n + 1] # 0 THEN 0 ELSE 1]
    ELSE activePads

Last(op, arg, played, fired) ==
  [op |-> op, arg |-> arg, played |-> played, fired |-> fired]

(***************************************************************************)
(* Transport: togglePlay, initialize, start, stop                          *)
(***************************************************************************)
togglePlayStopFilter(v) == v

\* the start guard lets every togglePlay through
togglePlayStartFilterAlways(v) == TRUE

togglePlayStartFilter(v) == ~v

\* The effects the two guards on sample($isRunning, togglePlay) call.  Both
\* samples read $isRunning before either effect runs.
togglePlayTargets(running) ==
  (IF togglePlayStopFilter(running) THEN {"stop"} ELSE {})
    \cup (IF togglePlayStartFilter(running) THEN {"start"} ELSE {})

\* $isRunning.on(start, () => true).on(stop, () => false); start runs last
isRunningReducer(running, fired) ==
  IF "start" \in fired THEN TRUE
  ELSE IF "stop" \in fired THEN FALSE
  ELSE running

\* forward start -> generator.start, stop -> generator.stop
generatorReducer(on, fired) ==
  IF "start" \in fired THEN TRUE
  ELSE IF "stop" \in fired THEN FALSE
  ELSE on

\* the Ticker emits tick only between generator.start and generator.stop
generatorTicks == tickerOn

\* The user of the engine issues at most eventsLeft more events, or any
\* number of them when eventsLeft is Unlimited.
Spend ==
  /\ eventsLeft # 0
  /\ eventsLeft' = IF eventsLeft = Unlimited THEN Unlimited ELSE eventsLeft - 1

CallEffects(fired) ==
  /\ "start" \in fired => pendingStarts < MaxPending
  /\ isRunning' = isRunningReducer(isRunning, fired)
  /\ tickerOn' = generatorReducer(tickerOn, fired)
  /\ pendingStarts' = IF "start" \in fired THEN pendingStarts + 1 ELSE pendingStarts

TogglePlay ==
  LET fired == togglePlayTargets(isRunning) IN
    /\ CallEffects(fired)
    /\ toggleParity' = (toggleParity + 1) % 2
    /\ last' = Last("togglePlay", -1, {}, fired)
    /\ UNCHANGED <<note, ab, abMode, lastStart, instrument, currentMode,
                   dataset, lowTumbler, ticksDone, onlyToggled, edits>>
    /\ Spend
    /\ UNCHANGED <<bpm, dragVars, ctlVars>>

Initialize ==
  /\ CallEffects({"start"})
  /\ onlyToggled' = FALSE
  /\ last' = Last("initialize", -1, {}, {"start"})
  /\ UNCHANGED <<note, ab, abMode, lastStart, instrument, currentMode,
                 dataset, lowTumbler, ticksDone, toggleParity, edits>>
  /\ Spend
  /\ UNCHANGED <<bpm, dragVars, ctlVars>>

\* await Tone.start() resolves: start.done
StartDone ==
  /\ pendingStarts > 0
  /\ pendingStarts' = pendingStarts - 1
  /\ lastStart' = "done"
  /\ last' = Last("startDone", -1, {}, {})
  /\ UNCHANGED <<note, ab, abMode, isRunning, tickerOn, instrument,
                 currentMode, dataset, lowTumbler, ticksDone, toggleParity,
                 onlyToggled, edits>>
  /\ UNCHANGED <<bpm, eventsLeft, dragVars, ctlVars>>

\* await Tone.start() rejects: start.fail
StartFail ==
  /\ pendingStarts > 0
  /\ pendingStarts' = pendingStarts - 1
  /\ lastStart' = "fail"
  /\ last' = Last("startFail", -1, {}, {})
  /\ UNCHANGED <<note, ab, abMode, isRunning, tickerOn, instrument,
                 currentMode, dataset, lowTumbler, ticksDone, toggleParity,
                 onlyToggled, edits>>
  /\ UNCHANGED <<bpm, eventsLeft, dragVars, ctlVars>>

(***************************************************************************)
(* The step-trigger cycle: generator.tick -> fxPlay -> $note -> abToggled  *)
(***************************************************************************)
Tick ==
  /\ generatorTicks
  /\ LET played == fxPlayHandler([dataset |-> dataset, ab |-> ab, note |-> note,
                                  substitutedInstruments |-> [lowTom |-> lowTumbler]])
         next == noteOnDone(note)
     IN
       /\ note' = next
       /\ ab' = IF next # note /\ noteIsZero(next) /\ abToggledFilter(abMode, ab)
                  THEN toggleAB(ab)
                  ELSE ab
       /\ ticksDone' = (ticksDone + 1) % StepCount
       /\ last' = Last("tick", note, played, {})
  /\ UNCHANGED <<abMode, isRunning, tickerOn, pendingStarts, lastStart,
                 instrument, currentMode, dataset, lowTumbler, toggleParity,
                 onlyToggled, edits>>
  /\ UNCHANGED <<bpm, eventsLeft, dragVars, ctlVars>>

SetABMode(mode) ==
  /\ abMode' = mode
  /\ last' = Last("setABMode", -1, {}, {})
  /\ UNCHANGED <<note, ab, isRunning, tickerOn, pendingStarts, lastStart,
                 instrument, currentMode, dataset, lowTumbler, ticksDone,
                 toggleParity, onlyToggled, edits>>
  /\ Spend
  /\ UNCHANGED <<bpm, dragVars, ctlVars>>

CycleABModes ==
  /\ abMode' = cycleABModesReducer(abMode)
  /\ last' = Last("cycleABModes", -1, {}, {})
  /\ UNCHANGED <<note, ab, isRunning, tickerOn, pendingStarts, lastStart,
                 instrument, currentMode, dataset, lowTumbler, ticksDone,
                 toggleParity, onlyToggled, edits>>
  /\ Spend
  /\ UNCHANGED <<bpm, dragVars, ctlVars>>

\* lowTumbler.toggle
ToggleLowTumbler ==
  /\ lowTumbler' = ~lowTumbler
  /\ last' = Last("toggleLowTumbler", -1, {}, {})
  /\ UNCHANGED <<note, ab, abMode, isRunning, tickerOn, pendingStarts,
                 lastStart, instrument, currentMode, dataset, ticksDone,
                 toggleParity, onlyToggled, edits>>
  /\ Spend
  /\ UNCHANGED <<bpm, dragVars, ctlVars>>

SetBPM(value) ==
  /\ bpm' = value
  /\ last' = Last("setBPM", -1, {}, {})
  /\ Spend
  /\ UNCHANGED <<note, ab, abMode, isRunning, tickerOn, pendingStarts,
                 lastStart, instrument, currentMode, dataset, lowTumbler,
                 ticksDone, toggleParity, onlyToggled, edits>>
  /\ UNCHANGED <<dragVars, ctlVars>>

CycleBPM ==
  /\ bpm' = cycleBPMReducer(bpm)
  /\ last' = Last("cycleBPM", -1, {}, {})
  /\ Spend
  /\ UNCHANGED <<note, ab, abMode, isRunning, tickerOn, pendingStarts,
                 lastStart, instrument, currentMode, dataset, lowTumbler,
                 ticksDone, toggleParity, onlyToggled, edits>>
  /\ UNCHANGED <<dragVars, ctlVars>>

(***************************************************************************)
(* Selection and dataset editing                                           *)
(***************************************************************************)
SetInstrument(key) ==
  /\ instrument' = key
  /\ last' = Last("setInstrument", -1, {}, {})
  /\ UNCHANGED <<note, ab, abMode, isRunning, tickerOn, pendingStarts,
                 lastStart, currentMode, dataset, lowTumbler, ticksDone,
                 toggleParity, onlyToggled, edits>>
  /\ Spend
  /\ UNCHANGED <<bpm, dragVars, ctlVars>>

CycleInstrument ==
  /\ instrument' = cycleInstrumentReducer(instrument)
  /\ last' = Last("cycleInstrument", -1, {}, {})
  /\ UNCHANGED <<note, ab, abMode, isRunning, tickerOn, pendingStarts,
                 lastStart, currentMode, dataset, lowTumbler, ticksDone,
                 toggleParity, onlyToggled, edits>>
  /\ Spend
  /\ UNCHANGED <<bpm, dragVars, ctlVars>>

SetCurrentMode(mode) ==
  /\ currentMode' = mode
  /\ last' = Last("setCurrentMode", -1, {}, {})
  /\ UNCHANGED <<note, ab, abMode, isRunning, tickerOn, pendingStarts,
                 lastStart, instrument, dataset, lowTumbler, ticksDone,
                 toggleParity, onlyToggled, edits>>
  /\ Spend
  /\ UNCHANGED <<bpm, dragVars, ctlVars>>

\* dataset[instrument][ab]! is undefined: the reducer throws, effector logs
\* the error and the store keeps its value
BankMissing(d, key, bank) == bank \notin DOMAIN d[key]

toggleActiveInstrumentPadReducer(d, key, bank, pad) ==
  IF BankMissing(d, key, bank) THEN d
  ELSE [d EXCEPT ![key] =
          [d[key] EXCEPT ![bank] =
             [k \in DOMAIN d[key][bank] |->
                IF k - 1 = pad THEN toggleNumber(d[key][bank][k])
                               ELSE d[key][bank][k]]]]

noteAdjusted(n) == IF n - 1 < 0 THEN 0 ELSE n - 1

tapPressedReducer(d, key, bank, n) ==
  IF BankMissing(d, key, bank) THEN d
  ELSE [d EXCEPT ![key] =
          [d[key] EXCEPT ![bank] =
             [k \in DOMAIN d[key][bank] |->
                IF k - 1 = noteAdjusted(n) THEN 1 ELSE d[key][bank][k]]]]

clearPatternReducer(d, key) == [d EXCEPT ![key] = createInstrumentDataset]

clearTrackReducer(d) == createDataset(NoOverride)

clearTrackFilter(mode) == isOneOf({"compose", "play"}, mode)

\* manualPlay is left out of the excluded modes
clearPatternFilterNoManual(mode) == isNotOneOf({"compose", "play"}, mode)

clearPatternFilter(mode) == isNotOneOf({"compose", "play", "manualPlay"}, mode)

\* the events the two guards on clearButtonPressed trigger
clearButtonTargets(mode) ==
  (IF clearTrackFilter(mode) THEN {"clearTrack"} ELSE {})
    \cup (IF clearPatternFilter(mode) THEN {"clearPattern"} ELSE {})

ToggleActiveInstrumentPad(pad) ==
  /\ edits < MaxEdits
  /\ edits' = edits + 1
  /\ dataset' = toggleActiveInstrumentPadReducer(dataset, instrument, ab, pad)
  /\ last' = Last("toggleActiveInstrumentPad", pad, {}, {})
  /\ UNCHANGED <<note, ab, abMode, isRunning, tickerOn, pendingStarts,
                 lastStart, instrument, currentMode, lowTumbler, ticksDone,
                 toggleParity, onlyToggled>>
  /\ Spend
  /\ UNCHANGED <<bpm, dragVars, ctlVars>>

TapPressed ==
  /\ edits < MaxEdits
  /\ edits' = edits + 1
  /\ dataset' = tapPressedReducer(dataset, instrument, ab, note)
  /\ last' = Last("tapPressed", note, {}, {})
  /\ UNCHANGED <<note, ab, abMode, isRunning, tickerOn, pendingStarts,
                 lastStart, instrument, currentMode, lowTumbler, ticksDone,
                 toggleParity, onlyToggled>>
  /\ Spend
  /\ UNCHANGED <<bpm, dragVars, ctlVars>>

ClearButtonPressed ==
  LET fired == clearButtonTargets(currentMode)
      cleared == IF "clearTrack" \in fired THEN clearTrackReducer(dataset) ELSE dataset
  IN
    /\ dataset' = IF "clearPattern" \in fired
                    THEN clearPatternReducer(cleared, instrument)
                    ELSE cleared
    /\ last' = Last("clearButtonPressed", -1, {}, fired)
    /\ UNCHANGED <<note, ab, abMode, isRunning, tickerOn, pendingStarts,
                   lastStart, instrument, currentMode, lowTumbler, ticksDone,
                   toggleParity, onlyToggled, edits>>
    /\ Spend
    /\ UNCHANGED <<bpm, dragVars, ctlVars>>

(***************************************************************************)
(* Drag manager                                                            *)
(***************************************************************************)
MaxX == 2

Null == "null"
Objects == {"knob", "fader"}
NoArgs == -1
PointerXs == 0 .. MaxX

DragCall(op, session, onStart, onDrag, onEnd, distance) ==
  [op |-> op, session |-> session, onStart |-> onStart, onDrag |-> onDrag,
   onEnd |-> onEnd, distance |-> distance]

\* $isDragging.watch: the mousemove listener follows the store
isDraggingWatch(is) == is

\* the handler of onMouseDown: the registered handlers, or null; the effect
\* fails when nothing is intersected (activeElement.object of null)
onMouseDownHandler(element) ==
  IF element = Null THEN "fail"
  ELSE IF element \in dragHandlersMap THEN element
  ELSE Null

\* the guard passes every settled result, registered or not
onMouseDownGuardNoFilter(doneData) == doneData # "fail"

onMouseDownGuard(doneData) == doneData # "fail" /\ doneData # Null

\* the assignment of the cache is lost: it keeps what it held
onDragStartCacheKept(element) == currentDragHandlerCache

\* onDragStart: currentDragHandlerCache = handlers.onDrag of the pressed object
onDragStartCache(element) == element

\* what the onDragEnd effect invokes of the registered handlers
onDragEndHandler(session) == 0

AddEventListeners ==
  /\ listening' = [mousedown |-> TRUE, mouseup |-> TRUE]
  /\ calls' = DragCall("addEventListeners", Null, 0, 0, 0, 0)
  /\ UNCHANGED <<moveListener, isDragging, activeElement, dragHandlersMap,
                 activeElementCache, mousePositionCache,
                 currentDragHandlerCache, throttleTimer, throttleArgs>>
  /\ UNCHANGED <<seqVars, ctlVars>>

RemoveEventListeners ==
  /\ listening' = [listening EXCEPT !.mouseup = FALSE]
  /\ calls' = DragCall("removeEventListeners", Null, 0, 0, 0, 0)
  /\ UNCHANGED <<moveListener, isDragging, activeElement, dragHandlersMap,
                 activeElementCache, mousePositionCache,
                 currentDragHandlerCache, throttleTimer, throttleArgs>>
  /\ UNCHANGED <<seqVars, ctlVars>>

Register(object) ==
  /\ dragHandlersMap' = dragHandlersMap \cup {object}
  /\ calls' = DragCall("register", Null, 0, 0, 0, 0)
  /\ UNCHANGED <<listening, moveListener, isDragging, activeElement,
                 activeElementCache, mousePositionCache,
                 currentDragHandlerCache, throttleTimer, throttleArgs>>
  /\ UNCHANGED <<seqVars, ctlVars>>

\* the intersection manager reports the object under the pointer
Intersect(element) ==
  /\ activeElement' = element
  /\ calls' = DragCall("intersect", Null, 0, 0, 0, 0)
  /\ UNCHANGED <<listening, moveListener, isDragging, dragHandlersMap,
                 activeElementCache, mousePositionCache,
                 currentDragHandlerCache, throttleTimer, throttleArgs>>
  /\ UNCHANGED <<seqVars, ctlVars>>

\* mousedown -> onMouseDown -> guard(doneData) -> onDragStart
MouseDown(x) ==
  /\ listening.mousedown
  /\ LET doneData == onMouseDownHandler(activeElement) IN
       IF onMouseDownGuard(doneData)
         THEN /\ isDragging' = TRUE
              /\ moveListener' = isDraggingWatch(TRUE)
              /\ mousePositionCache' = x
              /\ activeElementCache' = activeElement
              /\ currentDragHandlerCache' = onDragStartCache(activeElement)
              /\ calls' = DragCall("mousedown", activeElement, 1, 0, 0, 0)
         ELSE /\ calls' = DragCall("mousedown", Null, 0, 0, 0, 0)
              /\ UNCHANGED <<isDragging, moveListener, mousePositionCache,
                             activeElementCache, currentDragHandlerCache>>
  /\ UNCHANGED <<listening, activeElement, dragHandlersMap, throttleTimer,
                 throttleArgs>>
  /\ UNCHANGED <<seqVars, ctlVars>>

\* mouseup -> onDragEnd
MouseUp ==
  /\ listening.mouseup
  /\ isDragging' = FALSE
  /\ moveListener' = IF isDragging THEN isDraggingWatch(FALSE) ELSE moveListener
  /\ calls' = DragCall("mouseup", IF isDragging THEN activeElementCache ELSE Null,
                       0, 0, onDragEndHandler(activeElementCache), 0)
  /\ UNCHANGED <<listening, activeElement, dragHandlersMap,
                 activeElementCache, mousePositionCache,
                 currentDragHandlerCache, throttleTimer, throttleArgs>>
  /\ UNCHANGED <<seqVars, ctlVars>>

\* the onDrag effect: currentDragHandlerCache!(event.x - mousePositionCache.x)
onDragDistance(x) == x - mousePositionCache

\* mousemove -> onDragDebounced (throttle(onDrag, 100), leading and trailing)
MouseMove(x) ==
  /\ moveListener
  /\ IF ~throttleTimer
       THEN /\ throttleTimer' = TRUE
            /\ throttleArgs' = NoArgs
            /\ calls' = DragCall("mousemove", currentDragHandlerCache, 0,
                                 IF currentDragHandlerCache = Null THEN 0 ELSE 1,
                                 0, onDragDistance(x))
       ELSE /\ throttleArgs' = x
            /\ calls' = DragCall("mousemove", Null, 0, 0, 0, 0)
            /\ UNCHANGED throttleTimer
  /\ UNCHANGED <<listening, moveListener, isDragging, activeElement,
                 dragHandlersMap, activeElementCache, mousePositionCache,
                 currentDragHandlerCache>>
  /\ UNCHANGED <<seqVars, ctlVars>>

\* the throttle's wait elapses: the trailing call is made with the last args
ThrottleTimerExpired ==
  /\ throttleTimer
  /\ throttleTimer' = FALSE
  /\ throttleArgs' = NoArgs
  /\ calls' = IF throttleArgs # NoArgs
                THEN DragCall("trailing", currentDragHandlerCache, 0,
                              IF currentDragHandlerCache = Null THEN 0 ELSE 1,
                              0, onDragDistance(throttleArgs))
                ELSE DragCall("trailing", Null, 0, 0, 0, 0)
  /\ UNCHANGED <<listening, moveListener, isDragging, activeElement,
                 dragHandlersMap, activeElementCache, mousePositionCache,
                 currentDragHandlerCache>>
  /\ UNCHANGED <<seqVars, ctlVars>>

(***************************************************************************)
(* registerSteppedDragControl and registerRangeDragControl                 *)
(***************************************************************************)
defaultThreshold == 35
Undefined == -1

\* config: dictionary.length is `size`, range is [min, max]; threshold 0
\* stands for a config without threshold
SteppedControl(size, threshold) ==
  [kind |-> "stepped", size |-> size, min |-> 0, max |-> 0, threshold |-> threshold]
RangeControl(min, max, threshold) ==
  [kind |-> "range", size |-> 0, min |-> min, max |-> max, threshold |-> threshold]
NoControl == [kind |-> "none", size |-> 0, min |-> 0, max |-> 0, threshold |-> 0]
NoCache == [set |-> FALSE, value |-> 0]
NotHandled == [done |-> FALSE, start |-> 0, distance |-> 0, value |-> 0]

Thresholds == {0, 2, defaultThreshold}
ControlConfigs ==
  {SteppedControl(size, t) : size \in {1, 3, 5}, t \in Thresholds}
    \cup {RangeControl(r[1], r[2], t) :
            r \in {<<0, 4>>, <<2, 5>>, <<-2, 2>>}, t \in Thresholds}

\* config.dictionary: element k of a dictionary of the given length
Dictionary(size) == [k \in 1 .. size |-> 100 + k - 1]

\* dictionary[idx], undefined outside the array
DictionaryAt(size, idx) ==
  IF idx + 1 \in 1 .. size THEN Dictionary(size)[idx + 1] ELSE Undefined

\* the integer below num/den: the half is lost
MathFloor(num, den) == num \div den

\* Math.round(num / den) for den > 0: floor(num/den + 1/2)
MathRound(num, den) == (2 * num + den) \div (2 * den)

\* config.threshold || 35
thresholdOf(config) ==
  IF config.threshold = 0 THEN defaultThreshold ELSE config.threshold

\* onDrag of registerSteppedDragControl: the element handed to config.handler
steppedOnDrag(config, c, distance) ==
  LET base == config.size - 1
      threshold == thresholdOf(config)
      newIdx == MathRound((base - c) * threshold - distance, threshold)
      maxIdx == config.size - 1
      resultIdx == base - (IF newIdx > maxIdx THEN maxIdx
                           ELSE IF newIdx <= 0 THEN 0 ELSE newIdx)
  IN DictionaryAt(config.size, resultIdx)

\* onDrag of registerRangeDragControl: the value handed to config.handler
rangeOnDrag(config, c, distance) ==
  LET base == config.max
      threshold == thresholdOf(config)
      newValue == MathRound((base - c) * threshold - distance, threshold)
      maxValue == base
  IN base - (IF newValue > maxValue THEN maxValue
             ELSE IF newValue <= config.min THEN config.min ELSE newValue)

\* the values resolveCache can return at a drag start
StartValues(config) ==
  IF config.kind = "stepped" THEN 0 .. config.size - 1
                             ELSE config.min .. config.max

DragDistances == -MaxDrag .. MaxDrag

\* onStart: cache = config.resolveCache()
ControlOnStart(c) ==
  /\ control.kind # "none"
  /\ cache' = [set |-> TRUE, value |-> c]
  /\ UNCHANGED <<control, handled>>
  /\ UNCHANGED <<seqVars, dragVars>>

SteppedOnDrag(distance) ==
  /\ control.kind = "stepped"
  /\ cache.set
  /\ handled' = [done |-> TRUE, start |-> cache.value, distance |-> distance,
                 value |-> steppedOnDrag(control, cache.value, distance)]
  /\ UNCHANGED <<control, cache>>
  /\ UNCHANGED <<seqVars, dragVars>>

RangeOnDrag(distance) ==
  /\ control.kind = "range"
  /\ cache.set
  /\ handled' = [done |-> TRUE, start |-> cache.value, distance |-> distance,
                 value |-> rangeOnDrag(control, cache.value, distance)]
  /\ UNCHANGED <<control, cache>>
  /\ UNCHANGED <<seqVars, dragVars>>

(***************************************************************************)
(* Specifications                                                          *)
(***************************************************************************)
InitPointer ==
  /\ listening = [mousedown |-> FALSE, mouseup |-> FALSE]
  /\ moveListener = FALSE
  /\ isDragging = FALSE
  /\ activeElement = Null
  /\ dragHandlersMap = {}
  /\ activeElementCache = Null
  /\ mousePositionCache = 0
  /\ currentDragHandlerCache = Null
  /\ throttleTimer = FALSE
  /\ throttleArgs = NoArgs
  /\ calls = DragCall("init", Null, 0, 0, 0, 0)

\* the drag manager after construction, nothing registered
InitDrag ==
  /\ InitPointer
  /\ control = NoControl
  /\ cache = NoCache
  /\ handled = NotHandled

InitEngine ==
  /\ note = 0
  /\ ab = "a"
  /\ abMode = "a"
  /\ isRunning = FALSE
  /\ tickerOn = FALSE
  /\ pendingStarts = 0
  /\ lastStart = "none"
  /\ instrument = "bassDrum"
  /\ currentMode = playerModes[2]
  /\ \E initial \in InitialDatasets : dataset = createDataset(initial)
  /\ lowTumbler = FALSE
  /\ ticksDone = 0
  /\ toggleParity = 0
  /\ onlyToggled = TRUE
  /\ edits = 0
  /\ last = Last("init", -1, {}, {})
  /\ bpm = defaultBPM

\* the engine after construction, its user issuing any number of events
InitSeq == InitEngine /\ eventsLeft = Unlimited

\* the engine after construction, with the drag manager idle
Init == InitSeq /\ InitDrag

Next ==
  \/ TogglePlay
  \/ Initialize
  \/ StartDone
  \/ StartFail
  \/ Tick
  \/ \E mode \in ABMode : SetABMode(mode)
  \/ CycleABModes
  \/ ToggleLowTumbler

Spec == Init /\ [][Next]_vars

\* the engine stopped at any position and bank that playback reaches
InitEdit ==
  /\ note \in Steps
  /\ ab \in AB
  /\ abMode = "a"
  /\ isRunning = FALSE
  /\ tickerOn = FALSE
  /\ pendingStarts = 0
  /\ lastStart = "none"
  /\ instrument = "bassDrum"
  /\ currentMode = playerModes[2]
  /\ \E initial \in InitialDatasets : dataset = createDataset(initial)
  /\ lowTumbler = FALSE
  /\ ticksDone = note
  /\ toggleParity = 0
  /\ onlyToggled = TRUE
  /\ edits = 0
  /\ last = Last("init", -1, {}, {})
  /\ bpm = defaultBPM
  /\ eventsLeft = Unlimited
  /\ InitDrag

NextEdit ==
  \/ \E key \in InstrumentsKeys : SetInstrument(key)
  \/ CycleInstrument
  \/ \E mode \in PlayerMode : SetCurrentMode(mode)
  \/ \E pad \in PadInputs : ToggleActiveInstrumentPad(pad)
  \/ TapPressed
  \/ ClearButtonPressed

SpecEdit == InitEdit /\ [][NextEdit]_vars

NextDrag ==
  \/ AddEventListeners
  \/ RemoveEventListeners
  \/ \E object \in Objects : Register(object)
  \/ \E element \in Objects \cup {Null} : Intersect(element)
  \/ \E x \in PointerXs : MouseDown(x)
  \/ MouseUp
  \/ \E x \in PointerXs : MouseMove(x)
  \/ ThrottleTimerExpired

SpecDrag == Init /\ [][NextDrag]_vars

\* the engine after construction, its user issuing at most MaxEvents events
\* between which the clock ticks freely
InitFrame ==
  /\ InitEngine
  /\ eventsLeft = MaxEvents
  /\ InitDrag

\* the values and pads the user of the bounded engine picks from
FrameBPMs == {BPM[k] : k \in DOMAIN BPM}

FramePads == PadInputs

NextFrame ==
  \/ TogglePlay
  \/ StartDone
  \/ StartFail
  \/ Tick
  \/ \E value \in FrameBPMs : SetBPM(value)
  \/ CycleBPM
  \/ \E key \in InstrumentsKeys : SetInstrument(key)
  \/ CycleInstrument
  \/ \E mode \in ABMode : SetABMode(mode)
  \/ CycleABModes
  \/ \E mode \in PlayerMode : SetCurrentMode(mode)
  \/ \E pad \in FramePads : ToggleActiveInstrumentPad(pad)
  \/ TapPressed
  \/ ClearButtonPressed

SpecFrame == InitFrame /\ [][NextFrame]_vars

\* a control registered with one of the configs, before its first drag
InitControl ==
  /\ InitSeq
  /\ InitPointer
  /\ control \in ControlConfigs
  /\ cache = NoCache
  /\ handled = NotHandled

NextControl ==
  \/ \E c \in StartValues(control) : ControlOnStart(c)
  \/ \E distance \in DragDistances : SteppedOnDrag(distance)
  \/ \E distance \in DragDistances : RangeOnDrag(distance)

SpecControl == InitControl /\ [][NextControl]_vars

(***************************************************************************)
(* Properties                                                              *)
(***************************************************************************)
Opposite(bank) == IF bank = "a" THEN "b" ELSE "a"

\* C1: the step index is always an integer in [0,15] and equals the number
\* of completed trigger cycles (fxPlay.done) modulo 16: every completed tick
\* advances it exactly once, and 15 wraps to 0.
C1_PlaybackPosition ==
  /\ note \in 0 .. 15
  /\ note = ticksDone

\* a tick has just wrapped the position from 15 to 0
C1_Wrapped == last.op = "tick" /\ last.arg = 15 /\ note = 0

\* C2: when the step index goes from 15 to 0 the bank becomes a in mode "a",
\* b in mode "b" and the opposite of the old bank in mode "ab" (so it is left
\* alone when the mode is not "ab" and already equals the bank).
C2_BankAutoSwitch ==
  [][(note = 15 /\ note' = 0) =>
       ab' = CASE abMode = "a" -> "a"
               [] abMode = "b" -> "b"
               [] abMode = "ab" -> Opposite(ab)]_vars

\* a wrap in mode "b" has put the bank, which starts as a, on b
C2_ForcedToB == last.op = "tick" /\ note = 0 /\ abMode = "b" /\ ab = "b"

\* C3: on every tick the instruments whose play() is invoked are exactly
\* those whose current-bank cell at the current step is on and whose
\* substitute toggle is off.
C3_MutedNotTriggered ==
  [][ticksDone' # ticksDone =>
       last'.played = {key \in InstrumentsKeys :
                         /\ CellOn(dataset, key, ab, note)
                         /\ ~(key = "lowTom" /\ lowTumbler)}]_vars

\* C4: the running flag is true, and the Ticker started, only once the start
\* effect has completed successfully: never while Tone.start() is unsettled
\* and never after it was rejected.
C4_RunningOnlyAfterStartDone ==
  (isRunning \/ tickerOn) => (pendingStarts = 0 /\ lastStart = "done")

\* C5: a togglePlay issued while stopped calls only start, starts the Ticker
\* and leads to running; issued while running it calls only stop, stops the
\* Ticker and leads to stopped; so after n togglePlay events from the stopped
\* state the transport runs iff n is odd.
C5_TransportToggle ==
  /\ [][toggleParity' # toggleParity =>
          IF isRunning
            THEN last'.fired = {"stop"} /\ ~isRunning' /\ ~tickerOn'
            ELSE last'.fired = {"start"} /\ isRunning' /\ tickerOn']_vars
  /\ [](onlyToggled => (isRunning <=> toggleParity = 1))

\* the third togglePlay of a run: one start has settled, one stop was made
\* and the transport runs again
C5_ThirdToggle ==
  /\ onlyToggled
  /\ last.op = "togglePlay"
  /\ toggleParity = 1
  /\ isRunning
  /\ lastStart # "none"
  /\ pendingStarts = 1

\* C6: a pad toggle flips cell p of the active instrument's current bank and
\* nothing else, and a second toggle of the same pad gives the dataset back.
C6_PadDoubleToggle ==
  [][last'.op = "toggleActiveInstrumentPad" =>
       LET p == last'.arg IN
         /\ ab \in DOMAIN dataset[instrument]
         /\ p + 1 \in DOMAIN dataset[instrument][ab]
         /\ dataset'[instrument][ab][p + 1] = 1 - dataset[instrument][ab][p + 1]
         /\ \A key \in InstrumentsKeys : \A bank \in DOMAIN dataset[key] :
              /\ bank \in DOMAIN dataset'[key]
              /\ DOMAIN dataset'[key][bank] = DOMAIN dataset[key][bank]
              /\ \A k \in DOMAIN dataset[key][bank] :
                   (key # instrument \/ bank # ab \/ k # p + 1) =>
                     dataset'[key][bank][k] = dataset[key][bank][k]
         /\ toggleActiveInstrumentPadReducer(dataset', instrument, ab, p) = dataset]_vars

\* C7: clearButtonPressed in mode compose or play leaves every instrument
\* with two banks of sixteen zeros; in mode manualPlay it leaves the dataset
\* as it is; in any other mode it zeroes the two banks of the active
\* instrument and leaves the others as they are; it never triggers both
\* clearTrack and clearPattern.
C7_ClearGatedByMode ==
  [][last'.op = "clearButtonPressed" =>
       /\ currentMode \in {"compose", "play"} =>
            \A key \in InstrumentsKeys :
              /\ DOMAIN dataset'[key] = {"a", "b"}
              /\ \A bank \in {"a", "b"} :
                   /\ Len(dataset'[key][bank]) = 16
                   /\ \A k \in 1 .. 16 : dataset'[key][bank][k] = 0
       /\ currentMode = "manualPlay" => dataset' = dataset
       /\ currentMode \notin {"compose", "play", "manualPlay"} =>
            /\ DOMAIN dataset'[instrument] = {"a", "b"}
            /\ \A bank \in {"a", "b"} :
                 /\ Len(dataset'[instrument][bank]) = 16
                 /\ \A k \in 1 .. 16 : dataset'[instrument][bank][k] = 0
            /\ \A key \in InstrumentsKeys \ {instrument} :
                 dataset'[key] = dataset[key]
       /\ Cardinality(last'.fired) <= 1]_vars

\* a clear in mode effects has emptied lowTom and kept the bassDrum pattern
C7_PatternCleared ==
  /\ last.op = "clearButtonPressed"
  /\ last.fired = {"clearPattern"}
  /\ currentMode = "effects"
  /\ instrument = "lowTom"
  /\ ~CellOn(dataset, "lowTom", "a", 0)
  /\ CellOn(dataset, "bassDrum", "a", 0)

\* C8: tapPressed at step s sets cell max(s-1, 0) of the active instrument's
\* current bank to 1 and changes no other cell; a second tap at the same
\* step changes nothing more.
C8_TapToStep ==
  [][last'.op = "tapPressed" =>
       LET c == IF note = 0 THEN 0 ELSE note - 1 IN
         /\ ab \in DOMAIN dataset[instrument]
         /\ c + 1 \in DOMAIN dataset[instrument][ab]
         /\ dataset'[instrument][ab][c + 1] = 1
         /\ \A key \in InstrumentsKeys : \A bank \in DOMAIN dataset[key] :
              /\ bank \in DOMAIN dataset'[key]
              /\ DOMAIN dataset'[key][bank] = DOMAIN dataset[key][bank]
              /\ \A k \in DOMAIN dataset[key][bank] :
                   (key # instrument \/ bank # ab \/ k # c + 1) =>
                     dataset'[key][bank][k] = dataset[key][bank][k]
         /\ tapPressedReducer(dataset', instrument, ab, note) = dataset']_vars

\* C9: every instrument key is in the dataset, with both banks a and b, each
\* of exactly 16 cells, each cell 0 or 1.
C9_DatasetShape ==
  \A key \in InstrumentsKeys :
    /\ key \in DOMAIN dataset
    /\ DOMAIN dataset[key] = {"a", "b"}
    /\ \A bank \in {"a", "b"} :
         /\ Len(dataset[key][bank]) = 16
         /\ \A k \in 1 .. 16 : dataset[key][bank][k] \in {0, 1}

\* C10: the pointer-up that ends a drag session invokes the registered
\* onEnd() of the session's object exactly once, clears isDragging and
\* detaches the mousemove listener.
C10_PointerUpEndsSession ==
  (calls.op = "mouseup" /\ calls.session # Null) =>
    /\ calls.onEnd = 1
    /\ ~isDragging
    /\ ~moveListener

\* C11: once a pointer-up has ended the drag session no onDrag handler is
\* invoked any more, not even by the throttled trailing call that was
\* pending at the pointer-up: a handler is invoked only while dragging.
C11_NoStaleMove == calls.onDrag = 1 => isDragging

\* C12: a pointer-down over an intersected object that has no entry in
\* dragHandlersMap invokes no onStart, starts no session, leaves isDragging,
\* the mousemove listener and the three caches as they were, and the
\* onMouseDown effect does not fail.
C12_UnregisteredTargetInert ==
  [][(calls'.op = "mousedown" /\ activeElement # Null
        /\ activeElement \notin dragHandlersMap) =>
       /\ calls'.onStart = 0
       /\ calls'.session = Null
       /\ isDragging' = isDragging
       /\ moveListener' = moveListener
       /\ activeElementCache' = activeElementCache
       /\ mousePositionCache' = mousePositionCache
       /\ currentDragHandlerCache' = currentDragHandlerCache
       /\ onMouseDownHandler(activeElement) # "fail"]_vars

\* a pointer-down over the unregistered fader, while the knob is registered
C12_PressedUnregistered ==
  /\ calls.op = "mousedown"
  /\ calls.session = Null
  /\ activeElement = "fader"
  /\ dragHandlersMap = {"knob"}
  /\ ~isDragging
  /\ ~moveListener

\* C18: whenever the mousemove listener is attached or isDragging is true,
\* currentDragHandlerCache holds the onDrag of the handlers registered for
\* the pressed object, so a handled move never finds the cache null; while
\* no session was ever started no move reaches a handler.
C18_HandlerCached ==
  /\ (moveListener \/ isDragging) =>
       /\ currentDragHandlerCache # Null
       /\ currentDragHandlerCache = activeElementCache
       /\ currentDragHandlerCache \in dragHandlersMap
  /\ calls.op \in {"mousemove", "trailing"} /\ calls.onDrag = 1 =>
       calls.session \in dragHandlersMap
  /\ currentDragHandlerCache = Null => ~moveListener /\ calls.onDrag = 0

\* a move of a running session has been handed to the cached handler
C18_MoveHandled ==
  /\ moveListener
  /\ calls.op = "mousemove"
  /\ calls.onDrag = 1
  /\ calls.session = "knob"
  /\ calls.distance # 0

\* C19: removeEventListeners detaches every listener addEventListeners
\* attached, so that afterwards no pointer-down starts a session and no
\* session is started that no pointer-up listener can end.
C19_ListenersScoped ==
  /\ calls.op = "removeEventListeners" =>
       ~listening.mousedown /\ ~listening.mouseup
  /\ (calls.op = "mousedown" /\ calls.session # Null) => listening.mouseup

Abs(x) == IF x < 0 THEN -x ELSE x

Clamp(x, lo, hi) == IF x < lo THEN lo ELSE IF x > hi THEN hi ELSE x

\* r is an integer nearest to c + distance/threshold
Nearest(r, c, distance, threshold) ==
  2 * Abs(r * threshold - (c * threshold + distance)) <= threshold

Candidates(config) ==
  (config.min - config.size - MaxDrag - 1) .. (config.max + config.size + MaxDrag + 1)

\* C13: the value registerRangeDragControl hands to the handler lies in
\* [min, max] and is c + distance/threshold rounded to an integer and
\* clamped to [min, max]; a drag of distance 0 hands over c.
C13_RangeInRange ==
  (handled.done /\ control.kind = "range") =>
    /\ handled.value \in control.min .. control.max
    /\ \E r \in Candidates(control) :
         /\ Nearest(r, handled.start, handled.distance, thresholdOf(control))
         /\ handled.value = Clamp(r, control.min, control.max)
    /\ handled.distance = 0 => handled.value = handled.start

\* C14: the index registerSteppedDragControl selects is c + distance/t
\* (t = 35 when the config has no threshold) rounded to a nearest integer and
\* clamped to [0, n-1]; the handler gets an element of the dictionary, never
\* undefined, and a drag of distance 0 gives the element at c.
C14_SteppedClamps ==
  (handled.done /\ control.kind = "stepped") =>
    LET n == control.size
        t == IF control.threshold = 0 THEN 35 ELSE control.threshold
    IN
      /\ handled.value # Undefined
      /\ \E r \in Candidates(control) :
           /\ Nearest(r, handled.start, handled.distance, t)
           /\ handled.value = 100 + Clamp(r, 0, n - 1)
      /\ handled.distance = 0 => handled.value = 100 + handled.start

\* a dictionary of 5, no threshold given, start index 2: a drag of 35 selects
\* index 3
C14_OneStep ==
  /\ handled.done
  /\ control = SteppedControl(5, 0)
  /\ handled.start = 2
  /\ handled.distance = 35
  /\ handled.value = 103

\* C15: activePadLights has 16 entries; it is the active instrument's
\* current-bank array when the transport is stopped, and that array with
\* only the entry at the current step inverted when it runs.
C15_PadLightsConsistent ==
  LET lights == activePadLights(activeInstrumentPads(dataset, instrument, ab),
                                note, isRunning)
  IN
    /\ Len(lights) = 16
    /\ ab \in DOMAIN dataset[instrument]
    /\ \A k \in 1 .. 16 :
         lights[k] = IF isRunning /\ k = note + 1
                       THEN 1 - dataset[instrument][ab][k]
                       ELSE dataset[instrument][ab][k]

BPMValues == {BPM[k] : k \in DOMAIN BPM}

\* the element after b in the allowed sequence, the first after the last
BPMAfter(b) ==
  LET k == CHOOSE i \in DOMAIN BPM : BPM[i] = b IN BPM[(k % Len(BPM)) + 1]

RECURSIVE CycleTimes(_, _)
CycleTimes(b, n) == IF n = 0 THEN b ELSE CycleTimes(cycleBPMReducer(b), n - 1)

\* C16: cycleBPM moves the BPM to the next element of the allowed sequence
\* and from the last element to the first; the BPM stays in the allowed set,
\* and as many cycleBPM events as the sequence is long give the BPM back.
C16_BPMCycling ==
  /\ [](bpm \in BPMValues)
  /\ [][last'.op = "cycleBPM" => bpm' = BPMAfter(bpm)]_vars
  /\ [](CycleTimes(bpm, Len(BPM)) = bpm)

\* two cycleBPM events have taken the default BPM past the last element
C16_WrappedToFirst ==
  /\ last.op = "cycleBPM"
  /\ bpm = BPM[1]
  /\ eventsLeft = MaxEvents - 2

\* C17: the bank changes only on the 15 -> 0 wrap; in mode "ab" every wrap
\* flips it, so consecutive cycles play alternating banks; in mode "a"
\* (resp. "b") the first wrap leaves it on a (resp. b) and it stays there
\* for as long as the mode is kept.
C17_BankOverCycles ==
  /\ [][ab' # ab => (note = 15 /\ note' = 0)]_vars
  /\ [][(note = 15 /\ note' = 0 /\ abMode = "ab") => ab' = Opposite(ab)]_vars
  /\ [][(note = 15 /\ note' = 0 /\ abMode # "ab") => ab' = abMode]_vars
  /\ [][(abMode # "ab" /\ abMode' = abMode /\ ab = abMode) => ab' = ab]_vars

\* in mode "ab" a wrap has flipped the bank back from b to a
C17_FlippedBack ==
  /\ last.op = "tick"
  /\ note = 0
  /\ abMode = "ab"
  /\ ab = "a"

FrameOps ==
  {"togglePlay", "setBPM", "cycleBPM", "setInstrument", "cycleInstrument",
   "setABMode", "cycleABModes", "setCurrentMode", "toggleActiveInstrumentPad",
   "tapPressed", "clearButtonPressed"}

====
